---------------------------- MODULE Spec2Model ----------------------------
(***************************************************************************)
(* A model of the tarot plugin: TarotsAction.execute of src/plugin.py      *)
(* (plugin version 2.2.1) and of src/tarots/plugin.py (version 2.1.1), and *)
(* the pure helpers they call.                                             *)
(*                                                                         *)
(* TLA+ strings are ASCII, so the Chinese literals of the source are       *)
(* written as the following tokens:                                        *)
(*   card types   "all" = 全部, "major" = 大阿卡纳, "minor" = 小阿卡纳,    *)
(*                "quan" = 全, "da" = 大, "daa" = 大阿, "xiao" = 小,       *)
(*                "xiaoa" = 小阿, "medium" = 中等 (not a card type)        *)
(*   formations   "single" = 单张, "triangle" = 圣三角,                    *)
(*                "timeflow" = 时间之流, "four_elements" = 四要素,         *)
(*                "five_cards" = 五牌阵, "gypsy_cross" = 吉普赛十字,       *)
(*                "horseshoe" = 马蹄, "hexagram" = 六芒星,                 *)
(*                "dan" = 单, "sheng" = 圣, ... (the shorthands)           *)
(*   file names   "wang","pai" = 王牌, "er".."jiu" = 二..九, "shi" = 十,   *)
(*                "zheng","ni","wei" = 正 逆 位                            *)
(* Card ids are the integers i; the source uses str(i) for them, both as   *)
(* the drawn id and as the key of card_map, so the two always agree.       *)
(***************************************************************************)
EXTENDS Integers, Sequences, FiniteSets, TLC

VARIABLES
    impl,           \* which file is loaded: "plugin" (src/plugin.py) or "tarots" (src/tarots/plugin.py)
    card_map,       \* self.card_map: the loaded card catalog
    formation_map,  \* self.formation_map: the loaded spread catalog
    action_data,    \* self.action_data of the running request
    pc,             \* position of execute
    selected_cards, \* the draw: sequence of [id, is_reverse]
    idx,            \* loop index of "for idx, (card_id, is_reverse) in enumerate(selected_cards)" (1-based)
    card_details,   \* the result entries built by the loop
    sent_images,    \* src/plugin.py: ids whose image was sent
    failed_images,  \* src/tarots/plugin.py: ids whose image failed
    sent,           \* everything handed to send_text / send_image, in order
    ret,            \* the value execute returned
    narrator,       \* what the narrative service did in this request
    fn_in,          \* input of _get_local_image_filename: [name, is_reverse]
    fn_out,         \* its result (<< >> before the call)
    pos_in,         \* input of _get_position_name / _get_position_meaning
    pos_out,        \* their results (<< >> before the call)
    config_file,    \* config.toml on disk: [admin_users, using_cards, use_cards]
    tarot_jsons,    \* the decks of tarot_jsons/ that have a tarots.json
    deck_cards,     \* the card entries of a deck's tarots.json (their names)
    deck_files,     \* the image files in the deck's directory
    message,        \* the /tarots message: [sender, target_type, action_value]
    cmd_pc,         \* position of TarotsCommand: "idle", "start", "done"
    cmd_config,     \* self.config of the TarotsCommand instance
    cmd_card_map,   \* self.card_map of the TarotsCommand instance
    cmd_sent,       \* what TarotsCommand handed to send_text, in order
    cmd_ret,        \* what TarotsCommand.execute returned
    writers,        \* the config writers: [op, pc, config_data] of each instance
    cfg_log,        \* the reads and writes of config.toml so far, in order, each
                    \* with the content read or written
    target_message, \* action_data's label of the requesting user: [present, text]
    user_nickname,  \* the name execute uses for the requesting user: [set, name]
    init_pc,        \* position of TarotsAction.__init__
    self_config,    \* self.config of the TarotsAction instance
    available_sets, \* what _scan_available_card_sets returned
    write_failed    \* some write of config.toml raised (and was logged)

vars == << impl, card_map, formation_map, action_data, pc, selected_cards, idx,
           card_details, sent_images, failed_images, sent, ret, narrator,
           fn_in, fn_out, pos_in, pos_out, config_file, tarot_jsons, deck_cards,
           deck_files, message, cmd_pc, cmd_config, cmd_card_map, cmd_sent, cmd_ret,
           writers, cfg_log, target_message, user_nickname, init_pc, self_config,
           available_sets, write_failed >>

reqvars == << selected_cards, idx, card_details, sent_images, failed_images >>
runvars == << reqvars, narrator >>
fnvars == << fn_in, fn_out >>
envvars == << impl, card_map, formation_map >>
posvars == << pos_in, pos_out >>

\* what TarotsAction.execute works on, and everything else
execvars == << envvars, action_data, pc, runvars, sent, ret >>
diskvars == << config_file, tarot_jsons, deck_cards, deck_files >>
cmdvars == << message, cmd_pc, cmd_config, cmd_card_map, cmd_sent, cmd_ret >>
wrvars == << writers, cfg_log >>
labelvars == << target_message, user_nickname >>
initvars == << init_pc, self_config, available_sets, write_failed >>
auxvars == << posvars, diskvars, cmdvars, wrvars, labelvars, initvars >>

-----------------------------------------------------------------------------
(* Bounds of the model *)

\* largest cards_num of a spread that can be drawn in the model
MaxCardsNum == 2
\* random.sample is explored on the RngEdge lowest and RngEdge highest
\* positions of the population
RngEdge == 2
\* longest card name given to _get_local_image_filename
MaxNameLen == 3
\* longest label of the requesting user, in characters
MaxLabelLen == 4
\* largest number of card entries of the deck that /tarots check goes over
MaxEntries == 2
\* longest list of declared names or meanings given to the position helpers
MaxDeclared == 2
\* largest 0-based position index given to the position helpers
MaxIdx0 == 3

(* Program constants *)

\* range(22): the major arcana are the ids 0..21
MajorCount == 22
\* range(78): the catalog has the ids 0..77
TotalCards == 78
\* len(thinking_result) < 100
ShortLimit == 100
\* each template family has 3 templates
NumTemplates == 3

-----------------------------------------------------------------------------
(* Small helpers on sequences *)

Range(s) == { s[i] : i \in DOMAIN s }

SeqFromTo(a, b) == [ i \in 1..(b - a + 1) |-> a + i - 1 ]


-----------------------------------------------------------------------------
(* The catalogs the plugin can have loaded (the JSON files are data, not   *)
(* code: these are the inputs the model is explored on)                    *)

\* tarots.json: a full deck, a major-arcana-only deck, a minor-arcana-only
\* deck, a full deck whose _meta has no card_types, and no deck at all
\* (card_map stays {}).
CardCatalogs ==
    { [ loaded |-> TRUE,  card_types |-> "all",   ids |-> 0..(TotalCards - 1) ],
      [ loaded |-> TRUE,  card_types |-> "major", ids |-> 0..(MajorCount - 1) ],
      [ loaded |-> TRUE,  card_types |-> "minor", ids |-> MajorCount..(TotalCards - 1) ],
      [ loaded |-> TRUE,  card_types |-> "",      ids |-> 0..(TotalCards - 1) ],
      [ loaded |-> FALSE, card_types |-> "",      ids |-> {} ] }

\* The "represent" field of a spread: a [names, meanings] pair of lists
\* ("pair"), a list holding the names only ("names_only"), an empty list
\* ("empty") or no list at all ("null"); names and meanings are the lengths
\* of the two lists.
Represent(kind, n, m) == [ kind |-> kind, names |-> n, meanings |-> m ]

\* formation.json
FormationJson ==
    [ n \in { "single", "triangle", "timeflow", "four_elements",
              "five_cards", "gypsy_cross", "hexagram" } |->
        CASE n = "single"        -> [ cards_num |-> 1, is_cut |-> FALSE,
                                      represent |-> Represent("pair", 1, 1) ]
          [] n = "triangle"      -> [ cards_num |-> MaxCardsNum, is_cut |-> TRUE,
                                      represent |-> Represent("pair", MaxCardsNum, MaxCardsNum) ]
          [] n = "timeflow"      -> [ cards_num |-> MaxCardsNum, is_cut |-> FALSE,
                                      represent |-> Represent("pair", 1, 1) ]
          [] n = "four_elements" -> [ cards_num |-> 1, is_cut |-> TRUE,
                                      represent |-> Represent("empty", 0, 0) ]
          [] n = "five_cards"    -> [ cards_num |-> 1, is_cut |-> TRUE,
                                      represent |-> Represent("null", 0, 0) ]
          [] n = "gypsy_cross"   -> [ cards_num |-> 1, is_cut |-> FALSE,
                                      represent |-> Represent("names_only", 1, 0) ]
          [] n = "hexagram"      -> [ cards_num |-> TotalCards + 1, is_cut |-> FALSE,
                                      represent |-> Represent("pair", 1, 1) ] ]

\* The values the host can put in action_data; "absent" is a missing key.
CardTypeInputs == { "all", "major", "minor", "da", "medium" }
FormationInputs == { "single", "triangle", "timeflow", "four_elements",
                     "five_cards", "gypsy_cross", "hexagram", "dan", "ma", "pentagram",
                     "absent" }

-----------------------------------------------------------------------------
(* Pure helpers of TarotsAction *)

\* action_data.get(key, default)
GetOr(v, default) == IF v = "absent" THEN default ELSE v

_map_card_type(card_type) ==
    CASE card_type \in { "quan", "all" }            -> "all"
      [] card_type \in { "da", "daa", "major" }     -> "major"
      [] card_type \in { "xiao", "xiaoa", "minor" } -> "minor"
      [] OTHER                                      -> card_type

\* a plausible slip: an unknown name falls back to the default spread
_map_formation_default_single(formation) ==
    CASE formation \in { "dan", "single" }                        -> "single"
      [] formation \in { "sheng", "triangle" }                    -> "triangle"
      [] formation \in { "shi", "shijian", "timeflow" }           -> "timeflow"
      [] formation \in { "si", "four_elements" }                  -> "four_elements"
      [] formation \in { "wu", "wupai", "five_cards" }            -> "five_cards"
      [] formation \in { "ji", "jipusai", "gypsy_cross" }         -> "gypsy_cross"
      [] formation \in { "ma", "horseshoe" }                      -> "horseshoe"
      [] formation \in { "liu", "liumang", "hexagram" }           -> "hexagram"
      [] OTHER                                                    -> "single"

_map_formation(formation) ==
    CASE formation \in { "dan", "single" }                        -> "single"
      [] formation \in { "sheng", "triangle" }                    -> "triangle"
      [] formation \in { "shi", "shijian", "timeflow" }           -> "timeflow"
      [] formation \in { "si", "four_elements" }                  -> "four_elements"
      [] formation \in { "wu", "wupai", "five_cards" }            -> "five_cards"
      [] formation \in { "ji", "jipusai", "gypsy_cross" }         -> "gypsy_cross"
      [] formation \in { "ma", "horseshoe" }                      -> "horseshoe"
      [] formation \in { "liu", "liumang", "hexagram" }           -> "hexagram"
      [] OTHER                                                    -> formation

get_available_card_type(user_requested_type) ==
    LET supported_type == card_map.card_types
    IN  IF supported_type = "all" \/ user_requested_type = supported_type
        THEN user_requested_type
        ELSE supported_type

\* a plausible slip: range(21, 78) for the minor arcana
_get_card_range_off_by_one(card_type) ==
    IF card_type = "major" THEN SeqFromTo(0, MajorCount - 1)
    ELSE IF card_type = "minor" THEN SeqFromTo(MajorCount - 1, TotalCards - 1)
    ELSE SeqFromTo(0, TotalCards - 1)

_get_card_range(card_type) ==
    IF card_type = "major" THEN SeqFromTo(0, MajorCount - 1)
    ELSE IF card_type = "minor" THEN SeqFromTo(MajorCount, TotalCards - 1)
    ELSE SeqFromTo(0, TotalCards - 1)

\* The card type execute validates and draws from: src/plugin.py maps the
\* shorthands of the request, src/tarots/plugin.py asks the catalog.
request_type == GetOr(action_data.card_type, "all")

card_type ==
    IF impl = "plugin" THEN _map_card_type(request_type)
    ELSE get_available_card_type(request_type)

\* The spread name execute looks up.
formation_name ==
    IF impl = "plugin" THEN _map_formation(GetOr(action_data.formation, "single"))
    ELSE GetOr(action_data.formation, "single")

\* "if card_type not in [...]" passes
CardTypeValid == card_type \in { "all", "major", "minor" }

\* "if formation_name not in self.formation_map" passes
FormationValid == formation_name \in DOMAIN formation_map

\* random.sample(population, k): ValueError when k exceeds the population,
\* else any sequence of k elements taken at pairwise distinct positions of
\* the population.  The positions explored are the RngEdge lowest and the
\* RngEdge highest.
SamplePositions(n) == { i \in 1..n : i <= RngEdge \/ i > n - RngEdge }

\* a plausible slip: a sample larger than the population is clamped to the
\* whole population instead of raising
random_sample_clamped(population, k) ==
    IF k > Len(population)
    THEN { [ raised |-> FALSE, ids |-> population ] }
    ELSE { [ raised |-> FALSE, ids |-> [ j \in 1..k |-> population[f[j]] ] ] :
             f \in { g \in [ 1..k -> SamplePositions(Len(population)) ] :
                       \A a, b \in 1..k : a # b => g[a] # g[b] } }

random_sample(population, k) ==
    IF k > Len(population)
    THEN { [ raised |-> TRUE, ids |-> << >> ] }
    ELSE { [ raised |-> FALSE, ids |-> [ j \in 1..k |-> population[f[j]] ] ] :
             f \in { g \in [ 1..k -> SamplePositions(Len(population)) ] :
                       \A a, b \in 1..k : a # b => g[a] # g[b] } }

\* The orientations execute can give k drawn cards: "random.random() < 0.5"
\* per card when is_cut, False for every card otherwise.
\* a plausible slip: the orientation is randomized whatever is_cut says
Orientations_always_random(is_cut, k) == [ 1..k -> BOOLEAN ]

\* a plausible slip: one coin is tossed for the whole draw
Orientations_one_coin(is_cut, k) ==
    IF is_cut THEN { [ j \in 1..k |-> b ] : b \in BOOLEAN } ELSE { [ j \in 1..k |-> FALSE ] }

Orientations(is_cut, k) ==
    IF is_cut THEN [ 1..k -> BOOLEAN ] ELSE { [ j \in 1..k |-> FALSE ] }

-----------------------------------------------------------------------------
(* Messages and return values *)

\* what send_text / send_image were given
Text(what, arg) == [ kind |-> "text", what |-> what, arg |-> arg ]
Image(card_id, is_reverse) ==
    [ kind |-> "image", what |-> IF is_reverse THEN "reversed" ELSE "upright",
      arg |-> card_id ]

NoRet == [ ok |-> FALSE, msg |-> "none" ]
Return(ok, msg) == [ ok |-> ok, msg |-> msg ]

\* "except Exception" of execute: the failure text, then (False, "执行错误")
Raise ==
    /\ sent' = Append(sent, Text("divination_failed", 0))
    /\ ret' = Return(FALSE, "exec_error")
    /\ pc' = "done"

\* a validation failure: one denial text, then (False, msg)
Deny(what, msg) ==
    /\ sent' = Append(sent, Text(what, 0))
    /\ ret' = Return(FALSE, msg)
    /\ pc' = "done"

-----------------------------------------------------------------------------
(* Position labels *)

\* _get_position_name of src/plugin.py; idx0 is the 0-based index.  The
\* label is the idx0-th declared name or the synthesized "位置{idx0+1}".
_get_position_name(represent_list, idx0) ==
    IF represent_list.kind \in { "pair", "names_only" } /\ idx0 < represent_list.names
    THEN [ from |-> "declared", n |-> idx0 ]
    ELSE [ from |-> "default", n |-> idx0 + 1 ]

\* src/tarots/plugin.py: "represent_list[0][idx] if idx < len(represent_list[0])
\* else ..." raises IndexError on [] and TypeError on a non-list.
PosNameRaises(represent_list) == represent_list.kind \in { "empty", "null" }

pos_name_inline(represent_list, idx0) ==
    IF idx0 < represent_list.names
    THEN [ from |-> "declared", n |-> idx0 ]
    ELSE [ from |-> "default", n |-> idx0 + 1 ]

\* default_meanings of _get_position_meaning: one text for "single", a list
\* of texts for every other spread of the table
default_meanings ==
    [ n \in { "single", "triangle", "timeflow", "four_elements", "five_cards",
              "gypsy_cross", "horseshoe", "hexagram" } |->
        CASE n = "single"        -> [ is_list |-> FALSE, items |-> << "current_situation" >> ]
          [] n = "triangle"      -> [ is_list |-> TRUE,
                                      items |-> << "past", "present", "future" >> ]
          [] n = "timeflow"      -> [ is_list |-> TRUE,
                                      items |-> << "past", "present", "future" >> ]
          [] n = "four_elements" -> [ is_list |-> TRUE,
                                      items |-> << "action", "emotion", "thought", "matter" >> ]
          [] n = "five_cards"    -> [ is_list |-> TRUE,
                                      items |-> << "situation", "challenge", "choice",
                                                   "environment", "outcome" >> ]
          [] n = "gypsy_cross"   -> [ is_list |-> TRUE,
                                      items |-> << "situation", "obstacle", "goal",
                                                   "past", "future" >> ]
          [] n = "horseshoe"     -> [ is_list |-> TRUE,
                                      items |-> << "past", "present", "hidden",
                                                   "environment", "hope", "outcome" >> ]
          [] n = "hexagram"      -> [ is_list |-> TRUE,
                                      items |-> << "past", "present", "future",
                                                   "cause", "environment", "outcome" >> ] ]

\* the three kinds of position meaning: the idx0-th declared meaning, a text
\* of default_meanings, or "未知"
Meaning(from, n, text) == [ from |-> from, n |-> n, text |-> text ]

\* a plausible slip: the single text of "single" is indexed like the lists
_get_position_meaning_index_all(represent_list, idx0, formation) ==
    IF represent_list.kind = "pair" /\ idx0 < represent_list.meanings
    THEN Meaning("declared", idx0, "declared")
    ELSE IF formation \in DOMAIN default_meanings
              /\ idx0 < Len(default_meanings[formation].items)
         THEN Meaning("table", idx0, default_meanings[formation].items[idx0 + 1])
         ELSE Meaning("unknown", idx0, "unknown")

\* _get_position_meaning of src/plugin.py; idx0 is the 0-based index
_get_position_meaning(represent_list, idx0, formation) ==
    IF represent_list.kind = "pair" /\ idx0 < represent_list.meanings
    THEN Meaning("declared", idx0, "declared")
    ELSE IF formation \in DOMAIN default_meanings
         THEN LET meanings == default_meanings[formation]
              IN  IF meanings.is_list /\ idx0 < Len(meanings.items)
                  THEN Meaning("table", idx0, meanings.items[idx0 + 1])
                  ELSE IF ~meanings.is_list
                       THEN Meaning("table", idx0, meanings.items[1])
                       ELSE Meaning("unknown", idx0, "unknown")
         ELSE Meaning("unknown", idx0, "unknown")

\* src/tarots/plugin.py has no position meaning
NoMeaning == Meaning("none", 0, "none")

\* the shapes of "represent" and the spread names the two helpers are
\* called with in PosCall
RepresentShapes ==
    { Represent("pair", n, m) : n, m \in 0..MaxDeclared } \cup
    { Represent("names_only", n, 0) : n \in 0..MaxDeclared } \cup
    { Represent("empty", 0, 0), Represent("null", 0, 0) }

SpreadNames == DOMAIN default_meanings \cup { "pentagram" }

PosIdle == [ represent_list |-> Represent("null", 0, 0), idx0 |-> 0, formation |-> "single" ]

\* a caller asks for the label and the meaning of a position
PosCall ==
    /\ pos_out = << >>
    /\ pos_out' = << _get_position_name(pos_in.represent_list, pos_in.idx0),
                     _get_position_meaning(pos_in.represent_list, pos_in.idx0,
                                           pos_in.formation) >>
    /\ UNCHANGED << execvars, fnvars, pos_in, diskvars, cmdvars, wrvars, labelvars, initvars >>

-----------------------------------------------------------------------------
(* The narrative *)

\* What the narrative service did: called says whether it was asked at all,
\* available whether there is a service to ask, raises whether the call
\* raised, success and len the flag and the length of the text it returned.
NoNarrator ==
    [ called |-> FALSE, available |-> FALSE, raises |-> FALSE, success |-> FALSE, len |-> 0 ]

Narrated(available, raises, success, len) ==
    [ called |-> TRUE, available |-> available, raises |-> raises,
      success |-> success, len |-> len ]

\* src/plugin.py: llm_api.generate_with_model raises, or returns
\* (success, text)
LlmOutcomes ==
    { Narrated(TRUE, TRUE, FALSE, 0) } \cup
    { Narrated(TRUE, FALSE, s, l) :
        s \in BOOLEAN, l \in { ShortLimit - 1, ShortLimit } }

reverse_count(details) == Cardinality({ i \in DOMAIN details : details[i].is_reverse })

\* a plausible slip: the two tests in the wrong order
FallbackFamily_mixed_first(details) ==
    IF reverse_count(details) > 0 THEN "mixed"
    ELSE IF reverse_count(details) = Len(details) THEN "all_reversed"
    ELSE "all_upright"

\* the template family _generate_fallback_short_interpretation picks
FallbackFamily(details) ==
    IF reverse_count(details) = Len(details) THEN "all_reversed"
    ELSE IF reverse_count(details) > 0 THEN "mixed"
    ELSE "all_upright"

\* random.choice(interpretations): one of the family's templates
_generate_fallback_short_interpretation(details) ==
    { Text(FallbackFamily(details), t) : t \in 1..NumTemplates }

\* a plausible slip: "<=" for "<"
LlmAccepted_at_most(llm) == ~llm.raises /\ llm.success /\ llm.len <= ShortLimit

\* a plausible slip: the length of the reply is not tested
LlmAccepted_any_length(llm) == ~llm.raises /\ llm.success

\* "if success and len(thinking_result) < 100"
LlmAccepted(llm) == ~llm.raises /\ llm.success /\ llm.len < ShortLimit

\* the texts _generate_short_interpretation can return for an LLM outcome
_generate_short_interpretation(details, llm) ==
    IF LlmAccepted(llm) THEN { Text("llm", llm.len) }
    ELSE _generate_fallback_short_interpretation(details)

\* src/tarots/plugin.py: there is no chat_api, or chat_api.generate_response
\* raises, or it returns a text (which may be empty)
AiReplyOutcomes ==
    { Narrated(FALSE, FALSE, FALSE, 0), Narrated(TRUE, TRUE, FALSE, 0) } \cup
    { Narrated(TRUE, FALSE, TRUE, l) : l \in { 0, ShortLimit } }

\* _generate_ai_reply and the send_text that follows it: the canned wrapper
\* around result_text when there is no chat_api, the chat_api's response, or
\* result_text itself when the response is empty or the call raised
ai_reply_text(outcome) ==
    IF ~outcome.available THEN Text("wrapped_result_text", 0)
    ELSE IF ~outcome.raises /\ outcome.len > 0 THEN Text("ai_response", outcome.len)
    ELSE Text("result_text", 0)

-----------------------------------------------------------------------------
(* TarotsAction.execute *)

\* the host calls execute with some action_data
Request(ct, fm) ==
    /\ pc = "idle"
    /\ action_data' = [ card_type |-> ct, formation |-> fm ]
    /\ pc' = "start"
    /\ selected_cards' = << >>
    /\ idx' = 0
    /\ card_details' = << >>
    /\ sent_images' = << >>
    /\ failed_images' = << >>
    /\ sent' = << >>
    /\ ret' = NoRet
    /\ narrator' = NoNarrator
    /\ UNCHANGED << envvars, fnvars, auxvars >>

\* "if not self.card_map"
DenyNoDeck ==
    /\ pc = "start"
    /\ ~card_map.loaded
    /\ Deny("no_deck", "no_deck")
    /\ UNCHANGED << envvars, action_data, runvars, fnvars, auxvars >>

\* "if card_type not in [...]"
DenyCardType ==
    /\ pc = "start"
    /\ card_map.loaded
    /\ ~CardTypeValid
    /\ Deny("bad_card_type", "param_error")
    /\ UNCHANGED << envvars, action_data, runvars, fnvars, auxvars >>

\* "if formation_name not in self.formation_map"
DenyFormation ==
    /\ pc = "start"
    /\ card_map.loaded
    /\ CardTypeValid
    /\ ~FormationValid
    /\ Deny("bad_formation", "param_error")
    /\ UNCHANGED << envvars, action_data, runvars, fnvars, auxvars >>

\* the pool, the sample and the orientations; nothing is awaited in between
Draw ==
    /\ pc = "start"
    /\ card_map.loaded
    /\ CardTypeValid
    /\ FormationValid
    /\ LET formation == formation_map[formation_name]
           cards_num == formation.cards_num
           valid_ids == _get_card_range(card_type)
       IN  IF valid_ids = << >>
           THEN /\ Deny("bad_deck_config", "param_error")
                /\ UNCHANGED reqvars
           ELSE \E sample \in random_sample(valid_ids, cards_num) :
                IF sample.raised
                THEN /\ Raise
                     /\ UNCHANGED reqvars
                ELSE \E o \in Orientations(formation.is_cut, Len(sample.ids)) :
                         /\ selected_cards' =
                                [ j \in DOMAIN sample.ids |->
                                    [ id |-> sample.ids[j], is_reverse |-> o[j] ] ]
                         /\ idx' = 1
                         /\ pc' = "cards"
                         /\ UNCHANGED << card_details, sent_images, failed_images,
                                         sent, ret >>
    /\ UNCHANGED << envvars, action_data, narrator, fnvars, auxvars >>

\* "if not card_data: continue"
SkipCard ==
    /\ pc = "cards"
    /\ idx <= Len(selected_cards)
    /\ selected_cards[idx].id \notin card_map.ids
    /\ idx' = idx + 1
    /\ UNCHANGED << envvars, action_data, pc, selected_cards, card_details,
                    sent_images, failed_images, sent, ret, narrator, fnvars, auxvars >>

\* what _send_card_image can return: True once send_image was given the
\* picture, False when the card has no name, the file is missing or
\* send_image raised
_send_card_image == BOOLEAN

\* the entry of the card at idx
Entry(c, pos_name, pos_meaning) ==
    [ id |-> c.id, is_reverse |-> c.is_reverse, position |-> pos_name,
      position_meaning |-> pos_meaning ]

\* src/plugin.py: one turn of the loop; image_sent is what _send_card_image
\* returned
SendCardPlugin(image_sent) ==
    /\ impl = "plugin"
    /\ pc = "cards"
    /\ idx <= Len(selected_cards)
    /\ selected_cards[idx].id \in card_map.ids
    /\ LET c == selected_cards[idx]
           represent_list == formation_map[formation_name].represent
       IN  /\ sent' = IF image_sent THEN Append(sent, Image(c.id, c.is_reverse)) ELSE sent
           /\ sent_images' = IF image_sent THEN Append(sent_images, c.id) ELSE sent_images
           /\ card_details' =
                  Append(card_details,
                         Entry(c, _get_position_name(represent_list, idx - 1),
                               _get_position_meaning(represent_list, idx - 1, formation_name)))
    /\ idx' = idx + 1
    /\ UNCHANGED << envvars, action_data, pc, selected_cards, failed_images, ret,
                    narrator, fnvars, auxvars >>

\* src/tarots/plugin.py: one turn of the loop
SendCardTarots(img_success) ==
    /\ impl = "tarots"
    /\ pc = "cards"
    /\ idx <= Len(selected_cards)
    /\ selected_cards[idx].id \in card_map.ids
    /\ LET c == selected_cards[idx]
           represent_list == formation_map[formation_name].represent
       IN  IF PosNameRaises(represent_list)
           THEN /\ Raise
                /\ UNCHANGED << idx, card_details, failed_images >>
           ELSE /\ sent' = IF img_success THEN Append(sent, Image(c.id, c.is_reverse)) ELSE sent
                /\ failed_images' =
                       IF img_success THEN failed_images ELSE Append(failed_images, c.id)
                /\ card_details' =
                       Append(card_details,
                              Entry(c, pos_name_inline(represent_list, idx - 1), NoMeaning))
                /\ idx' = idx + 1
                /\ UNCHANGED << pc, ret >>
    /\ UNCHANGED << envvars, action_data, selected_cards, sent_images, narrator, fnvars, auxvars >>

\* after the loop: src/plugin.py gives up when no image was sent,
\* src/tarots/plugin.py when some image failed
\* a plausible slip: src/plugin.py gives up as soon as one image failed
ImagesFailed_any ==
    IF impl = "plugin" THEN Len(sent_images) < Len(card_details) ELSE failed_images # << >>

\* a plausible slip: the narrative is produced whatever was sent
ImagesFailed_never == FALSE

ImagesFailed ==
    IF impl = "plugin" THEN sent_images = << >> ELSE failed_images # << >>

GiveUpImages ==
    /\ pc = "cards"
    /\ idx > Len(selected_cards)
    /\ ImagesFailed
    /\ Deny("images_failed", "image_failed")
    /\ UNCHANGED << envvars, action_data, runvars, fnvars, auxvars >>

\* a plausible slip: the narrative does not wait for the end of the loop
NarratePlugin_inside_loop(llm) ==
    /\ impl = "plugin"
    /\ pc = "cards"
    /\ sent_images # << >>
    /\ \E short_interpretation \in _generate_short_interpretation(card_details, llm) :
           sent' = Append(sent, short_interpretation)
    /\ narrator' = llm
    /\ ret' = IF idx > Len(selected_cards) THEN Return(TRUE, "done") ELSE ret
    /\ pc' = IF idx > Len(selected_cards) THEN "done" ELSE pc
    /\ UNCHANGED << envvars, action_data, reqvars, fnvars, auxvars >>

\* src/plugin.py: the narrative
NarratePlugin(llm) ==
    /\ impl = "plugin"
    /\ pc = "cards"
    /\ idx > Len(selected_cards)
    /\ ~ImagesFailed
    /\ \E short_interpretation \in _generate_short_interpretation(card_details, llm) :
           sent' = Append(sent, short_interpretation)
    /\ narrator' = llm
    /\ ret' = Return(TRUE, "done")
    /\ pc' = "done"
    /\ UNCHANGED << envvars, action_data, reqvars, fnvars, auxvars >>

\* src/tarots/plugin.py: the narrative
NarrateTarots(outcome) ==
    /\ impl = "tarots"
    /\ pc = "cards"
    /\ idx > Len(selected_cards)
    /\ ~ImagesFailed
    /\ sent' = Append(sent, ai_reply_text(outcome))
    /\ narrator' = outcome
    /\ ret' = Return(TRUE, "done")
    /\ pc' = "done"
    /\ UNCHANGED << envvars, action_data, reqvars, fnvars, auxvars >>

\* execute has returned; the host builds the next request's instance from
\* the same files
Finish ==
    /\ pc = "done"
    /\ pc' = "idle"
    /\ action_data' = [ card_type |-> "absent", formation |-> "absent" ]
    /\ selected_cards' = << >>
    /\ idx' = 0
    /\ card_details' = << >>
    /\ sent_images' = << >>
    /\ failed_images' = << >>
    /\ sent' = << >>
    /\ ret' = NoRet
    /\ narrator' = NoNarrator
    /\ UNCHANGED << envvars, fnvars, auxvars >>

-----------------------------------------------------------------------------
(* _get_local_image_filename *)

\* str.replace(old, new) on a string given as the sequence of its
\* characters: the non-overlapping occurrences of old, found left to right
RECURSIVE Replace(_, _, _)
Replace(s, old, new) ==
    IF Len(s) < Len(old) THEN s
    ELSE IF SubSeq(s, 1, Len(old)) = old
         THEN new \o Replace(SubSeq(s, Len(old) + 1, Len(s)), old, new)
         ELSE << s[1] >> \o Replace(Tail(s), old, new)

\* .replace("2", "二") ... .replace("9", "九")
ReplaceDigits2to9(s) ==
    Replace(Replace(Replace(Replace(Replace(Replace(Replace(Replace(s,
        << "2" >>, << "er" >>), << "3" >>, << "san" >>), << "4" >>, << "si" >>),
        << "5" >>, << "wu" >>), << "6" >>, << "liu" >>), << "7" >>, << "qi" >>),
        << "8" >>, << "ba" >>), << "9" >>, << "jiu" >>)

\* the suffix: 正位 or 逆位, then ".jpg"
FilenameSuffix(is_reverse) ==
    << IF is_reverse THEN "ni" ELSE "zheng", "wei", ".jpg" >>

\* a plausible slip: the chain also has .replace("1", "一"), in numeric order
_get_local_image_filename_with_1(card_name, is_reverse) ==
    LET cleaned_name ==
            Replace(ReplaceDigits2to9(Replace(Replace(card_name,
                        << "A", "C", "E" >>, << "wang", "pai" >>), << "1" >>, << "yi" >>)),
                    << "1", "0" >>, << "shi" >>)
    IN  cleaned_name \o FilenameSuffix(is_reverse)

_get_local_image_filename(card_name, is_reverse) ==
    LET cleaned_name ==
            Replace(ReplaceDigits2to9(Replace(card_name, << "A", "C", "E" >>, << "wang", "pai" >>)),
                    << "1", "0" >>, << "shi" >>)
    IN  cleaned_name \o FilenameSuffix(is_reverse)

\* the characters card names are made of in the model
NameChars == { "A", "C", "E", "1", "0", "2", "9" }

CardNames == UNION { [ 1..k -> NameChars ] : k \in 0..MaxNameLen }

\* a caller asks for the file name of a card
FnCall ==
    /\ fn_out = << >>
    /\ fn_out' = _get_local_image_filename(fn_in.name, fn_in.is_reverse)
    /\ UNCHANGED << execvars, fn_in, auxvars >>

-----------------------------------------------------------------------------
(* The name of the requesting user *)

\* the characters of a label: two letters, a blank, the half-width colon
\* ":" and the full-width colon "fw" (U+FF1A)
LabelChars == { "n", "u", " ", ":", "fw" }
Labels == UNION { [ 1..k -> LabelChars ] : k \in 0..MaxLabelLen }

\* the default name, 用户
DefaultNickname == << "yonghu" >>

\* s.split(sep, 1)[0]: the text before the first sep
RECURSIVE Before(_, _)
Before(s, sep) ==
    IF s = << >> \/ Head(s) = sep THEN << >>
    ELSE << Head(s) >> \o Before(Tail(s), sep)

\* str.strip()
RECURSIVE lstrip(_)
lstrip(s) == IF s # << >> /\ Head(s) = " " THEN lstrip(Tail(s)) ELSE s
RECURSIVE rstrip(_)
rstrip(s) ==
    IF s # << >> /\ s[Len(s)] = " " THEN rstrip(SubSeq(s, 1, Len(s) - 1)) ELSE s
strip(s) == rstrip(lstrip(s))

\* src/tarots/plugin.py: action_data.get("target_message", "") and the parse
\* of its name prefix
parse_target_message(label) ==
    LET reply_to == IF label.present THEN label.text ELSE << >>
    IN  IF reply_to = << >> THEN DefaultNickname
        ELSE IF ":" \in Range(reply_to) THEN strip(Before(reply_to, ":"))
        ELSE IF "fw" \in Range(reply_to) THEN strip(Before(reply_to, "fw"))
        ELSE DefaultNickname

\* src/plugin.py: action_data.get("target_user", "用户"), used as it is
get_target_user(label) == IF label.present THEN label.text ELSE DefaultNickname

NoLabel == [ present |-> FALSE, text |-> << >> ]
NoNickname == [ set |-> FALSE, name |-> << >> ]

\* execute works out the name of the requesting user
ResolveNickname ==
    /\ ~user_nickname.set
    /\ user_nickname' =
           [ set |-> TRUE,
             name |-> IF impl = "tarots" THEN parse_target_message(target_message)
                      ELSE get_target_user(target_message) ]
    /\ UNCHANGED << execvars, fnvars, posvars, diskvars, cmdvars, wrvars, initvars,
                    target_message >>

-----------------------------------------------------------------------------
(* The deck configuration and the decks on disk *)

\* the decks that can be on disk, and a deck name that is not
Decks == { "bilibili", "east" }
DeckNames == Decks \cup { "ghost" }

\* config.toml: permissions.admin_users, cards.using_cards, cards.use_cards
Config(admin_users, using_cards, use_cards) ==
    [ admin_users |-> admin_users, using_cards |-> using_cards, use_cards |-> use_cards ]

\* the user ids of the model
Users == { "admin", "guest" }

\* the names of the entries of a tarots.json; << >> is an entry whose name is
\* empty or absent
EntryNames == { << "A", "C", "E" >>, << "1", "0" >> }
DeckCardLists ==
    UNION { [ 1..k -> EntryNames \cup { << >> } ] : k \in 0..MaxEntries }

\* the image files a deck directory can hold
ImageFiles == { _get_local_image_filename(n, r) : n \in EntryNames, r \in BOOLEAN }

-----------------------------------------------------------------------------
(* TarotsCommand (src/tarots/plugin.py) *)

\* what send_text was given: a text, the card names it lists, a number it shows
Reply(what, names, n) == [ what |-> what, names |-> names, n |-> n ]
CmdReturn(ok, msg) == [ ok |-> ok, msg |-> msg ]
NoMessage == [ sender |-> "guest", target_type |-> "help", action_value |-> "" ]
NoCardMap == [ loaded |-> FALSE, cards |-> << >> ]

\* __init__: the host builds a TarotsCommand for the message; the instance
\* loads config.toml and the tarots.json of the deck in use
CmdReceive(sender, target_type, action_value) ==
    /\ cmd_pc = "idle"
    /\ message' = [ sender |-> sender, target_type |-> target_type,
                    action_value |-> action_value ]
    /\ cmd_config' = config_file
    /\ cmd_card_map' = IF config_file.using_cards \in tarot_jsons
                       THEN [ loaded |-> TRUE, cards |-> deck_cards ]
                       ELSE NoCardMap
    /\ cmd_pc' = "start"
    /\ cmd_sent' = << >>
    /\ cmd_ret' = CmdReturn(FALSE, "none")
    /\ UNCHANGED << execvars, fnvars, posvars, labelvars, initvars, wrvars, diskvars >>

\* a plausible slip: an empty admin list lets everyone in
_check_person_permission_open_when_empty(user_id) ==
    cmd_config.admin_users = { } \/ user_id \in cmd_config.admin_users

_check_person_permission(user_id) == user_id \in cmd_config.admin_users

_check_cards(cards) == cards \in Range(cmd_config.use_cards)

\* the end of every branch of execute: the texts sent and the return value
CmdEnd(texts, ok, msg) ==
    /\ cmd_sent' = cmd_sent \o texts
    /\ cmd_ret' = CmdReturn(ok, msg)
    /\ cmd_pc' = "done"

\* "if not self._check_person_permission(sender_id)"
CmdDenyPermission ==
    /\ cmd_pc = "start"
    /\ ~_check_person_permission(message.sender)
    /\ CmdEnd(<< Reply("no_permission", << >>, 0) >>, FALSE, "no_permission")
    /\ UNCHANGED << execvars, fnvars, posvars, labelvars, initvars, wrvars, diskvars, message, cmd_config, cmd_card_map >>

\* "if not self.card_map"
CmdDenyNoDeck ==
    /\ cmd_pc = "start"
    /\ _check_person_permission(message.sender)
    /\ ~cmd_card_map.loaded
    /\ CmdEnd(<< Reply("no_deck", << >>, 0) >>, FALSE, "no_deck")
    /\ UNCHANGED << execvars, fnvars, posvars, labelvars, initvars, wrvars, diskvars, message, cmd_config, cmd_card_map >>

\* the entry named card_name lacks one of its two pictures
ImageMissing(card_name) ==
    \/ _get_local_image_filename(card_name, FALSE) \notin deck_files
    \/ _get_local_image_filename(card_name, TRUE) \notin deck_files

\* the loop of _check_card_set: entries with no name are counted and not
\* looked at
missing_cards(cards) ==
    LET Lacking(card_name) == card_name # << >> /\ ImageMissing(card_name)
    IN  SelectSeq(cards, Lacking)

\* _check_card_set
CmdCheck ==
    /\ cmd_pc = "start"
    /\ _check_person_permission(message.sender)
    /\ cmd_card_map.loaded
    /\ message.target_type = "check"
    /\ message.action_value = ""
    /\ LET missing == missing_cards(cmd_card_map.cards)
           total_cards == Len(cmd_card_map.cards)
       IN  IF missing = << >>
           THEN CmdEnd(<< Reply("checking", << >>, 0),
                          Reply("check_passed", << >>, total_cards) >>,
                       TRUE, "check_passed")
           ELSE CmdEnd(<< Reply("checking", << >>, 0),
                          Reply("images_missing", missing, Len(missing)) >>,
                       FALSE, "images_missing")
    /\ UNCHANGED << execvars, fnvars, posvars, labelvars, initvars, wrvars, diskvars, message, cmd_config, cmd_card_map >>

\* a plausible slip: the switch also narrows use_cards to the new deck
_set_card_config_and_use_cards(card_set, write_ok) ==
    config_file' = IF write_ok
                   THEN [ config_file EXCEPT !.using_cards = card_set,
                                             !.use_cards = << card_set >> ]
                   ELSE config_file

\* _set_card_config: read config.toml, set using_cards, write it back; an
\* exception (write_ok = FALSE) is logged and nothing is written
_set_card_config(card_set, write_ok) ==
    config_file' = IF write_ok
                   THEN [ config_file EXCEPT !.using_cards = card_set ]
                   ELSE config_file

\* _switch_card_set
CmdSwitch(write_ok) ==
    /\ cmd_pc = "start"
    /\ _check_person_permission(message.sender)
    /\ cmd_card_map.loaded
    /\ message.target_type = "switch"
    /\ message.action_value # ""
    /\ IF _check_cards(message.action_value)
       THEN /\ _set_card_config(message.action_value, write_ok)
            /\ CmdEnd(<< Reply("switched", << message.action_value >>, 0) >>,
                      TRUE, "switched")
       ELSE /\ UNCHANGED config_file
            /\ CmdEnd(<< Reply("deck_unavailable", cmd_config.use_cards, 0) >>,
                      FALSE, "deck_unavailable")
    /\ UNCHANGED << execvars, fnvars, posvars, labelvars, initvars, wrvars, tarot_jsons, deck_cards, deck_files,
                    message, cmd_config, cmd_card_map >>

\* the last branch of execute
CmdBadArgs ==
    /\ cmd_pc = "start"
    /\ _check_person_permission(message.sender)
    /\ cmd_card_map.loaded
    /\ ~(message.target_type = "check" /\ message.action_value = "")
    /\ ~(message.target_type = "switch" /\ message.action_value # "")
    /\ CmdEnd(<< Reply("bad_args", << >>, 0) >>, FALSE, "param_error")
    /\ UNCHANGED << execvars, fnvars, posvars, labelvars, initvars, wrvars, diskvars, message, cmd_config, cmd_card_map >>

\* execute has returned; the instance is dropped
CmdFinish ==
    /\ cmd_pc = "done"
    /\ cmd_pc' = "idle"
    /\ message' = NoMessage
    /\ cmd_config' = config_file
    /\ cmd_card_map' = NoCardMap
    /\ cmd_sent' = << >>
    /\ cmd_ret' = CmdReturn(FALSE, "none")
    /\ UNCHANGED << execvars, fnvars, posvars, labelvars, initvars, wrvars, diskvars >>

-----------------------------------------------------------------------------
(* The config writers: set_cards, set_card, _set_card_config *)

\* the instances that write config.toml
WriterIds == { "a", "b" }

\* a call of one of the three writers with its argument
WriterOp(name, card, cards) == [ name |-> name, card |-> card, cards |-> cards ]
WriterOps ==
    { WriterOp("set_card", c, << >>) : c \in { "bilibili", "east", "" } } \cup
    { WriterOp("_set_card_config", c, << >>) : c \in { "bilibili", "east" } } \cup
    { WriterOp("set_cards", "", l) : l \in { << >>, << "east" >>, << "bilibili", "east" >> } }

NoWriter == [ op |-> WriterOp("none", "", << >>), pc |-> "idle",
              config_data |-> Config({ }, "", << >>) ]

\* the assignment each writer makes to the document it has loaded
modify(op, config_data) ==
    IF op.name = "set_cards"
    THEN [ config_data EXCEPT !.use_cards = op.cards ]
    ELSE [ config_data EXCEPT !.using_cards = op.card ]

\* "with open(config_path, 'r') ...: config_data = tomlkit.load(f)" and the
\* assignment to the loaded document
WriterRead(w, op) ==
    /\ writers[w].pc = "idle"
    /\ writers' = [ writers EXCEPT ![w] =
                        [ op |-> op, pc |-> "loaded",
                          config_data |-> modify(op, config_file) ] ]
    /\ cfg_log' = Append(cfg_log, [ who |-> w, step |-> "read", file |-> config_file ])
    /\ UNCHANGED << execvars, fnvars, posvars, labelvars, initvars, diskvars, cmdvars >>

\* a plausible slip: the writer stores its one key and leaves the rest of
\* the file as it is at the time of the write
dumped_one_key(w) == modify(writers[w].op, config_file)

\* what "tomlkit.dump(config_data, f)" puts in the file: the whole document
\* the writer loaded, with its assignment
dumped(w) == writers[w].config_data

\* "with open(config_path, 'w') ...: tomlkit.dump(config_data, f)"
WriterWrite(w) ==
    /\ writers[w].pc = "loaded"
    /\ config_file' = dumped(w)
    /\ writers' = [ writers EXCEPT ![w].pc = "done" ]
    /\ cfg_log' = Append(cfg_log, [ who |-> w, step |-> "write", file |-> dumped(w) ])
    /\ UNCHANGED << execvars, fnvars, posvars, labelvars, initvars, tarot_jsons, deck_cards,
                    deck_files, cmdvars >>

-----------------------------------------------------------------------------
(* TarotsAction.__init__: the deck configuration *)

\* _load_config: a config.toml without the using_cards key reads as 'bilibili'
_load_config(file) ==
    [ file EXCEPT !.using_cards = IF @ = "absent" THEN "bilibili" ELSE @ ]

\* iterdir() lists the deck directories in any order
Orders(S) ==
    { q \in [ 1..Cardinality(S) -> S ] : \A i, j \in DOMAIN q : i # j => q[i] # q[j] }

\* a plausible slip: only an empty using_cards is repaired
needs_switch_only_empty(current_using, available) == current_using = ""

\* "if not current_using or current_using not in available_sets"
needs_switch(current_using, available) ==
    current_using = "" \/ current_using \notin Range(available)

\* "self.config = self._load_config()", the first statement on the config
StartLoad ==
    /\ init_pc = "idle"
    /\ self_config' = _load_config(config_file)
    /\ init_pc' = "scan"
    /\ UNCHANGED << execvars, fnvars, posvars, labelvars, diskvars, cmdvars, wrvars,
                    available_sets, write_failed >>

\* a write of config.toml by set_card / set_cards: the file with the
\* assignment, or the file as it was when the write raised
written(file, op, write_ok) == IF write_ok THEN modify(op, file) ELSE file

\* _update_available_card_sets, up to the switch to the first deck found
StartRepair(found, write_ok) ==
    /\ init_pc = "scan"
    /\ available_sets' = found
    /\ LET current_using == self_config.using_cards
           new_using == IF found # << >> THEN found[1] ELSE ""
       IN  IF needs_switch(current_using, found) /\ new_using # ""
           THEN /\ config_file' =
                       written(config_file, WriterOp("set_card", new_using, << >>), write_ok)
                /\ write_failed' = (write_failed \/ ~write_ok)
           ELSE UNCHANGED << config_file, write_failed >>
    /\ init_pc' = "set_cards"
    /\ UNCHANGED << execvars, fnvars, posvars, labelvars, tarot_jsons, deck_cards,
                    deck_files, cmdvars, wrvars, self_config >>

\* _update_available_card_sets: "if available_sets: self.set_cards(...)
\* else: self.set_card(""); self.set_cards([])"
StartSetCards(write_ok, write_ok2) ==
    /\ init_pc = "set_cards"
    /\ IF available_sets # << >>
       THEN /\ config_file' =
                   written(config_file, WriterOp("set_cards", "", available_sets), write_ok)
            /\ write_failed' = (write_failed \/ ~write_ok)
       ELSE /\ config_file' =
                   written(written(config_file, WriterOp("set_card", "", << >>), write_ok),
                           WriterOp("set_cards", "", << >>), write_ok2)
            /\ write_failed' = (write_failed \/ ~write_ok \/ ~write_ok2)
    /\ init_pc' = "reload"
    /\ UNCHANGED << execvars, fnvars, posvars, labelvars, tarot_jsons, deck_cards,
                    deck_files, cmdvars, wrvars, self_config, available_sets >>

\* "self.config = self._load_config()", the last statement of
\* _update_available_card_sets
StartReload ==
    /\ init_pc = "reload"
    /\ self_config' = _load_config(config_file)
    /\ init_pc' = "done"
    /\ UNCHANGED << execvars, fnvars, posvars, labelvars, diskvars, cmdvars, wrvars,
                    available_sets, write_failed >>

-----------------------------------------------------------------------------
(* The specification *)

FnIdle == [ name |-> << >>, is_reverse |-> FALSE ]

\* execute is not running
ExecIdle ==
    /\ action_data = [ card_type |-> "absent", formation |-> "absent" ]
    /\ pc = "idle"
    /\ selected_cards = << >>
    /\ idx = 0
    /\ card_details = << >>
    /\ sent_images = << >>
    /\ failed_images = << >>
    /\ sent = << >>
    /\ ret = NoRet
    /\ narrator = NoNarrator

\* the loaded files of the specifications that do not run execute
EnvIdle ==
    /\ impl = "plugin"
    /\ card_map \in { c \in CardCatalogs : c.card_types = "all" }
    /\ formation_map = FormationJson

FnVarsIdle == fn_in = FnIdle /\ fn_out = << >>

PosVarsIdle == pos_in = PosIdle /\ pos_out = << >>

\* the files of the specifications that do not read them
DiskIdle ==
    /\ config_file = Config({ "admin" }, "bilibili", << "bilibili", "east" >>)
    /\ tarot_jsons = Decks
    /\ deck_cards = << >>
    /\ deck_files = { }

\* no /tarots command is being handled
CmdVarsIdle ==
    /\ message = NoMessage
    /\ cmd_pc = "idle"
    /\ cmd_config = config_file
    /\ cmd_card_map = NoCardMap
    /\ cmd_sent = << >>
    /\ cmd_ret = CmdReturn(FALSE, "none")

\* no writer of config.toml is running
WrVarsIdle ==
    /\ writers = [ w \in WriterIds |-> NoWriter ]
    /\ cfg_log = << >>

LabelVarsIdle == target_message = NoLabel /\ user_nickname = NoNickname

\* no TarotsAction is being built
InitVarsIdle ==
    /\ init_pc = "idle"
    /\ self_config = _load_config(config_file)
    /\ available_sets = << >>
    /\ write_failed = FALSE

\* nothing but execute and _get_local_image_filename is in use
AuxIdle ==
    PosVarsIdle /\ DiskIdle /\ CmdVarsIdle /\ WrVarsIdle /\ LabelVarsIdle /\ InitVarsIdle

Init ==
    /\ impl \in { "plugin", "tarots" }
    /\ card_map \in CardCatalogs
    /\ formation_map = FormationJson
    /\ action_data = [ card_type |-> "absent", formation |-> "absent" ]
    /\ pc = "idle"
    /\ selected_cards = << >>
    /\ idx = 0
    /\ card_details = << >>
    /\ sent_images = << >>
    /\ failed_images = << >>
    /\ sent = << >>
    /\ ret = NoRet
    /\ narrator = NoNarrator
    /\ fn_in = FnIdle
    /\ fn_out = << >>
    /\ AuxIdle

Next ==
    \/ \E ct \in CardTypeInputs, fm \in FormationInputs : Request(ct, fm)
    \/ DenyNoDeck
    \/ DenyCardType
    \/ DenyFormation
    \/ Draw
    \/ SkipCard
    \/ \E image_sent \in _send_card_image : SendCardPlugin(image_sent)
    \/ \E img_success \in _send_card_image : SendCardTarots(img_success)
    \/ GiveUpImages
    \/ \E llm \in LlmOutcomes : NarratePlugin(llm)
    \/ \E outcome \in AiReplyOutcomes : NarrateTarots(outcome)
    \/ Finish

Spec == Init /\ [][Next]_vars

\* _get_local_image_filename alone, on every card name of the model
InitFn ==
    /\ impl = "plugin"
    /\ card_map \in { c \in CardCatalogs : c.card_types = "all" }
    /\ formation_map = FormationJson
    /\ action_data = [ card_type |-> "absent", formation |-> "absent" ]
    /\ pc = "idle"
    /\ selected_cards = << >>
    /\ idx = 0
    /\ card_details = << >>
    /\ sent_images = << >>
    /\ failed_images = << >>
    /\ sent = << >>
    /\ ret = NoRet
    /\ narrator = NoNarrator
    /\ fn_in \in [ name : CardNames, is_reverse : BOOLEAN ]
    /\ fn_out = << >>
    /\ AuxIdle

NextFn == FnCall

SpecFn == InitFn /\ [][NextFn]_vars

\* _get_position_name and _get_position_meaning alone, on every shape of
\* "represent", every spread name and every index of the model
InitPos ==
    /\ EnvIdle
    /\ ExecIdle
    /\ FnVarsIdle
    /\ pos_in \in [ represent_list : RepresentShapes, idx0 : 0..MaxIdx0,
                     formation : SpreadNames ]
    /\ pos_out = << >>
    /\ DiskIdle
    /\ CmdVarsIdle
    /\ WrVarsIdle
    /\ LabelVarsIdle
    /\ InitVarsIdle

NextPos == PosCall

SpecPos == InitPos /\ [][NextPos]_vars

\* TarotsCommand, on every configuration, deck content and message of the model
InitCmd ==
    /\ EnvIdle
    /\ ExecIdle
    /\ FnVarsIdle
    /\ PosVarsIdle
    /\ config_file \in { Config(a, u, l) :
                            a \in { { "admin" }, { } },
                            u \in { "bilibili", "ghost" },
                            l \in { << "bilibili", "east" >>, << "bilibili" >> } }
    /\ tarot_jsons = Decks
    /\ deck_cards \in DeckCardLists
    /\ deck_files \in SUBSET ImageFiles
    /\ CmdVarsIdle
    /\ WrVarsIdle
    /\ LabelVarsIdle
    /\ InitVarsIdle

NextCmd ==
    \/ \E sender \in Users, target_type \in { "check", "switch", "help" },
          action_value \in DeckNames \cup { "" } :
            CmdReceive(sender, target_type, action_value)
    \/ CmdDenyPermission
    \/ CmdDenyNoDeck
    \/ CmdCheck
    \/ \E write_ok \in BOOLEAN : CmdSwitch(write_ok)
    \/ CmdBadArgs
    \/ CmdFinish

SpecCmd == InitCmd /\ [][NextCmd]_vars

\* two instances, each calling one writer of config.toml, their reads and
\* writes in any order
InitCfg ==
    /\ EnvIdle
    /\ ExecIdle
    /\ FnVarsIdle
    /\ PosVarsIdle
    /\ config_file \in { Config({ "admin" }, u, l) :
                            u \in { "bilibili", "ghost" },
                            l \in { << "bilibili", "east" >>, << "ghost" >> } }
    /\ tarot_jsons = Decks
    /\ deck_cards = << >>
    /\ deck_files = { }
    /\ CmdVarsIdle
    /\ WrVarsIdle
    /\ LabelVarsIdle
    /\ InitVarsIdle

NextCfg ==
    \/ \E w \in WriterIds, op \in WriterOps : WriterRead(w, op)
    \/ \E w \in WriterIds : WriterWrite(w)

SpecCfg == InitCfg /\ [][NextCfg]_vars

\* the name of the requesting user alone, in both files, on every label of
\* the model and on action_data without the key
InitLabel ==
    /\ impl \in { "plugin", "tarots" }
    /\ card_map \in { c \in CardCatalogs : c.card_types = "all" }
    /\ formation_map = FormationJson
    /\ ExecIdle
    /\ FnVarsIdle
    /\ PosVarsIdle
    /\ DiskIdle
    /\ CmdVarsIdle
    /\ WrVarsIdle
    /\ target_message \in { NoLabel } \cup { [ present |-> TRUE, text |-> l ] : l \in Labels }
    /\ user_nickname = NoNickname
    /\ InitVarsIdle

NextLabel == ResolveNickname

SpecLabel == InitLabel /\ [][NextLabel]_vars

\* TarotsAction.__init__ on every prior config.toml and every set of decks
\* on disk of the model
InitStart ==
    /\ EnvIdle
    /\ ExecIdle
    /\ FnVarsIdle
    /\ PosVarsIdle
    /\ config_file \in { Config({ "admin" }, u, l) :
                            u \in DeckNames \cup { "", "absent" },
                            l \in { << >>, << "ghost" >>, << "bilibili", "east" >> } }
    /\ tarot_jsons \in SUBSET Decks
    /\ deck_cards = << >>
    /\ deck_files = { }
    /\ CmdVarsIdle
    /\ WrVarsIdle
    /\ LabelVarsIdle
    /\ InitVarsIdle

NextStart ==
    \/ StartLoad
    \/ \E found \in Orders(tarot_jsons), write_ok \in BOOLEAN : StartRepair(found, write_ok)
    \/ \E write_ok, write_ok2 \in BOOLEAN : StartSetCards(write_ok, write_ok2)
    \/ StartReload

SpecStart == InitStart /\ [][NextStart]_vars

\* src/tarots/plugin.py: the host runs TarotsAction.execute and
\* TarotsCommand.execute on the same files, one at a time and in any order;
\* the catalogs stand for those of the deck in use when the TarotsAction
\* was built
FrameCardTypes == { "all", "medium" }
FrameFormations == { "single", "triangle", "five_cards", "dan" }

InitFrame ==
    /\ impl = "tarots"
    /\ card_map \in CardCatalogs
    /\ formation_map = FormationJson
    /\ ExecIdle
    /\ FnVarsIdle
    /\ PosVarsIdle
    /\ config_file \in { Config({ "admin" }, u, l) :
                            u \in { "bilibili", "ghost" },
                            l \in { << "bilibili", "east" >>, << "bilibili" >> } }
    /\ tarot_jsons = Decks
    /\ deck_cards = << >>
    /\ deck_files = { }
    /\ CmdVarsIdle
    /\ WrVarsIdle
    /\ LabelVarsIdle
    /\ InitVarsIdle

NextFrame ==
    \/ /\ cmd_pc = "idle"
       /\ \/ \E ct \in FrameCardTypes, fm \in FrameFormations : Request(ct, fm)
          \/ DenyNoDeck
          \/ DenyCardType
          \/ DenyFormation
          \/ Draw
          \/ SkipCard
          \/ \E img_success \in _send_card_image : SendCardTarots(img_success)
          \/ GiveUpImages
          \/ \E outcome \in AiReplyOutcomes : NarrateTarots(outcome)
          \/ Finish
    \/ /\ pc = "idle"
       /\ \/ \E sender \in Users, target_type \in { "check", "switch", "help" },
                action_value \in DeckNames \cup { "" } :
                  CmdReceive(sender, target_type, action_value)
          \/ CmdDenyPermission
          \/ CmdDenyNoDeck
          \/ CmdCheck
          \/ \E write_ok \in BOOLEAN : CmdSwitch(write_ok)
          \/ CmdBadArgs
          \/ CmdFinish

SpecFrame == InitFrame /\ [][NextFrame]_vars


-----------------------------------------------------------------------------
(* Vocabulary of the properties *)

\* the id pools as the specification states them
ClaimPool(t) ==
    CASE t = "major" -> 0..21
      [] t = "minor" -> 22..77
      [] OTHER       -> 0..77

Recognised == { "all", "major", "minor" }

IdsOf(cards) == [ i \in DOMAIN cards |-> cards[i].id ]

PairwiseDistinct(q) == \A i, j \in DOMAIN q : i # j => q[i] # q[j]

InCatalog(c) == c.id \in card_map.ids

\* a draw has been made in this request
Drew == pc \in { "cards", "done" } /\ selected_cards # << >>

IsImage(m) == m.kind = "image"
IsText(m) == m.kind = "text"
AnyImage == \E k \in DOMAIN sent : IsImage(sent[k])
TextsSent == SelectSeq(sent, IsText)
LastSent == sent[Len(sent)]

TemplateFamilies == { "all_reversed", "mixed", "all_upright" }
NarrativeTexts == TemplateFamilies \cup
                  { "llm", "ai_response", "result_text", "wrapped_result_text" }
IsNarrative(m) == IsText(m) /\ m.what \in NarrativeTexts

\* the only thing sent is the given text
OnlyText(what) == sent = << Text(what, 0) >>

\* some card that has a result entry had no image sent for it
SomeImageFailed ==
    \E i \in DOMAIN card_details :
        ~\E k \in DOMAIN sent : IsImage(sent[k]) /\ sent[k].arg = card_details[i].id

\* the loop went over every drawn card: one entry per drawn card of the catalog
EntriesFollowDraw == IdsOf(card_details) = IdsOf(SelectSeq(selected_cards, InCatalog))

-----------------------------------------------------------------------------
(* C1 *)

-----------------------------------------------------------------------------
(* C2 *)

\* C2 as stated: when the selected spread has is_cut = false every drawn
\* card is upright, and the filter "major" with the spread "single" yields
\* exactly one id, in 0..21, upright.
C2_Original ==
    ( /\ Drew
      /\ FormationValid
      /\ ~formation_map[formation_name].is_cut )
    => /\ \A i \in DOMAIN selected_cards : ~selected_cards[i].is_reverse
       /\ (action_data.card_type = "major" /\ formation_name = "single")
              => /\ Len(selected_cards) = 1
                 /\ selected_cards[1].id \in 0..21

\* C2, amended: when the selected spread has is_cut = false every drawn card,
\* every result entry and every image sent is upright, for every filter and
\* every outcome of the random source; the filter "major" with the spread
\* "single" yields exactly one upright id, which is in 0..21 except when
\* src/tarots/plugin.py coerces the filter to the only type its catalog
\* declares, "minor": then it is in 22..77.
C2_NoCutIsUpright ==
    ( /\ Drew
      /\ FormationValid
      /\ ~formation_map[formation_name].is_cut )
    => /\ \A i \in DOMAIN selected_cards : ~selected_cards[i].is_reverse
       /\ \A i \in DOMAIN card_details : ~card_details[i].is_reverse
       /\ \A k \in DOMAIN sent : IsImage(sent[k]) => sent[k].what = "upright"
       /\ (action_data.card_type = "major" /\ formation_name = "single")
              => /\ Len(selected_cards) = 1
                 /\ IF impl = "tarots" /\ card_map.card_types = "minor"
                    THEN selected_cards[1].id \in 22..77
                    ELSE selected_cards[1].id \in 0..21

\* the filter "major" with the spread "single" has drawn and sent one upright card
C2_Witness ==
    /\ pc = "done"
    /\ ret.ok
    /\ action_data.card_type = "major"
    /\ formation_name = "single"
    /\ Len(card_details) = 1
    /\ ~card_details[1].is_reverse
    /\ card_details[1].id \in 0..21
    /\ AnyImage

-----------------------------------------------------------------------------
(* C3 *)

\* the requests of the model whose spread name, after the shorthand mapping
\* of src/plugin.py (src/tarots/plugin.py has none), is not a key of
\* formation.json
UnknownSpreadRequested ==
    /\ pc # "idle"
    /\ \/ action_data.formation \in { "pentagram", "ma" }
       \/ impl = "tarots" /\ action_data.formation = "dan"

\* C3: a request whose spread name is not a key of the spread catalog draws
\* no card and sends no image, and ends with exactly one denial text and
\* failure.
C3_UnknownSpreadDenied ==
    UnknownSpreadRequested
    => /\ pc \in { "start", "done" }
       /\ selected_cards = << >>
       /\ card_details = << >>
       /\ ~AnyImage
       /\ pc = "done"
              => /\ ~ret.ok
                 /\ \/ OnlyText("bad_formation")
                    \/ OnlyText("bad_card_type")
                    \/ OnlyText("no_deck")

\* an unknown spread has been denied as such
C3_Witness ==
    /\ pc = "done"
    /\ UnknownSpreadRequested
    /\ OnlyText("bad_formation")
    /\ ret = Return(FALSE, "param_error")

-----------------------------------------------------------------------------
(* C4 *)

\* C4 as stated: with a catalog loaded, a filter that is not one of the three
\* recognised values ("medium") ends in the invalid-card-type denial and no
\* card is drawn, whatever card_types the catalog declares.
C4_UnrecognisedFilterDenied ==
    ( /\ pc \in { "cards", "done" }
      /\ card_map.loaded
      /\ action_data.card_type = "medium" )
    => /\ pc = "done"
       /\ OnlyText("bad_card_type")
       /\ ~ret.ok
       /\ selected_cards = << >>

-----------------------------------------------------------------------------
(* C5 *)

\* C5 as stated: when the catalog declares only one card type, the cards
\* drawn come only from that type's pool, for every requested filter.
C5_SingleTypeCatalogCoerces ==
    ( /\ Drew
      /\ card_map.card_types \in { "major", "minor" } )
    => Range(IdsOf(selected_cards)) \subseteq ClaimPool(card_map.card_types)

-----------------------------------------------------------------------------
(* C6 *)

\* C6: when the spread's cards_num exceeds the resolved pool, execute fails:
\* it returns failure after one failure text, sends no image, and there is
\* no draw and no result entry, clamped or partial.
C6_OversizeIsHardError ==
    ( /\ pc \notin { "idle", "start" }
      /\ card_map.loaded
      /\ CardTypeValid
      /\ FormationValid
      /\ formation_map[formation_name].cards_num > Cardinality(ClaimPool(card_type)) )
    => /\ pc = "done"
       /\ ret = Return(FALSE, "exec_error")
       /\ OnlyText("divination_failed")
       /\ selected_cards = << >>
       /\ card_details = << >>

\* a spread larger than the pool has been refused
C6_Witness ==
    /\ pc = "done"
    /\ card_map.loaded
    /\ CardTypeValid
    /\ formation_name = "hexagram"
    /\ ret = Return(FALSE, "exec_error")
    /\ OnlyText("divination_failed")

-----------------------------------------------------------------------------
(* C7 *)

\* C7 as stated: an image failure for a drawn card is never fatal: the
\* request still ends with a narrative text and success.
C7_Original ==
    ( pc = "done" /\ SomeImageFailed )
    => /\ ret.ok
       /\ sent # << >>
       /\ IsNarrative(LastSent)

\* C7, amended: an image failure never stops the loop: every drawn card of
\* the catalog still gets its result entry.  In src/plugin.py the request
\* then ends with one narrative text and success provided that the image of
\* at least one drawn card was sent, and with a failure text and failure
\* when none was; in src/tarots/plugin.py any image failure ends the request
\* with a failure text and failure.
C7_ImageFailureOutcome ==
    ( pc = "done" /\ SomeImageFailed )
    => /\ EntriesFollowDraw
       /\ Len(TextsSent) = 1
       /\ IsText(LastSent)
       /\ (impl = "plugin" /\ AnyImage)
              => ret = Return(TRUE, "done") /\ IsNarrative(LastSent)
       /\ (impl = "plugin" /\ ~AnyImage)
              => ret = Return(FALSE, "image_failed") /\ LastSent = Text("images_failed", 0)
       /\ impl = "tarots"
              => ret = Return(FALSE, "image_failed") /\ LastSent = Text("images_failed", 0)

\* src/plugin.py: one image failed, another was sent, and the request succeeded
C7_Witness ==
    /\ pc = "done"
    /\ impl = "plugin"
    /\ SomeImageFailed
    /\ AnyImage
    /\ Len(card_details) = MaxCardsNum
    /\ ret.ok

-----------------------------------------------------------------------------
(* C8 *)

\* the narrative service failed: it is unavailable, the call raised or
\* reported failure, or (src/plugin.py) the reply is over-length
NarratorFailed ==
    /\ narrator.called
    /\ IF impl = "plugin"
       THEN narrator.raises \/ ~narrator.success \/ narrator.len >= 100
       ELSE ~narrator.available \/ narrator.raises \/ narrator.len = 0

-----------------------------------------------------------------------------
(* C9 *)

\* the number of reversed entries, counted one entry at a time
RECURSIVE CountReversed(_)
CountReversed(details) ==
    IF details = << >> THEN 0
    ELSE (IF Head(details).is_reverse THEN 1 ELSE 0) + CountReversed(Tail(details))

\* the fallback text was sent (src/plugin.py)
FallbackSent ==
    /\ pc = "done"
    /\ impl = "plugin"
    /\ narrator.called
    /\ ~(narrator.success /\ ~narrator.raises /\ narrator.len < 100)

\* C9: for a non-empty list of card details the fallback text is from the
\* "all reversed" family iff the reversed count equals the total, from the
\* "mixed" family iff 0 < reversed count < total, from the "all upright"
\* family iff the reversed count is 0, and it is one of that family's 3
\* templates.
C9_FallbackFamilyByReversedCount ==
    ( FallbackSent /\ card_details # << >> )
    => LET total == Len(card_details)
           reversed == CountReversed(card_details)
       IN  /\ LastSent.what \in TemplateFamilies
           /\ LastSent.arg \in 1..3
           /\ LastSent.what = "all_reversed" <=> reversed = total
           /\ LastSent.what = "mixed" <=> (0 < reversed /\ reversed < total)
           /\ LastSent.what = "all_upright" <=> reversed = 0

\* every entry is reversed and the third "all reversed" template was sent
C9_Witness ==
    /\ FallbackSent
    /\ Len(card_details) = MaxCardsNum
    /\ \A i \in DOMAIN card_details : card_details[i].is_reverse
    /\ LastSent = Text("all_reversed", 3)

-----------------------------------------------------------------------------
(* C10 *)

\* the chain of the specification: "10" is processed before "2"
TenFirstFilename(card_name, is_reverse) ==
    ReplaceDigits2to9(
        Replace(Replace(card_name, << "A", "C", "E" >>, << "wang", "pai" >>),
                << "1", "0" >>, << "shi" >>))
    \o << IF is_reverse THEN "ni" ELSE "zheng", "wei", ".jpg" >>

\* C10: for every name and orientation the file name is the one the
\* "10"-first chain gives: no "10", no "ACE" and no digit 2..9 is left in it,
\* and the name "10" upright gives "十正位.jpg".
C10_FilenameIsTenFirstChain ==
    fn_out # << >>
    => /\ fn_out = TenFirstFilename(fn_in.name, fn_in.is_reverse)
       /\ \A i \in 1..(Len(fn_out) - 1) : ~(fn_out[i] = "1" /\ fn_out[i + 1] = "0")
       /\ \A i \in DOMAIN fn_out : fn_out[i] \notin { "2", "9" }
       /\ (fn_in.name = << "1", "0" >> /\ ~fn_in.is_reverse)
              => fn_out = << "shi", "zheng", "wei", ".jpg" >>

\* "210" upright has become 二十正位.jpg
C10_Witness ==
    /\ fn_in = [ name |-> << "2", "1", "0" >>, is_reverse |-> FALSE ]
    /\ fn_out = << "er", "shi", "zheng", "wei", ".jpg" >>

-----------------------------------------------------------------------------
(* C11 *)

\* the selected spread does not declare a name and a meaning for each of its
\* cards_num positions: "represent" is absent-like, is not a two-element
\* [names, meanings] list, or one of the two lists is short
LabelsIncomplete ==
    LET formation == formation_map[formation_name]
    IN  \/ formation.represent.kind # "pair"
        \/ formation.represent.names < formation.cards_num
        \/ formation.represent.meanings < formation.cards_num

\* C11 as stated: resolving the position labels never makes execute fail.
\* Once a spread with incomplete labels has been drawn, execute does not end
\* in its exception handler, and every drawn card of the catalog gets its
\* entry, labelled with a declared name or a synthesized default.
C11_LabelsNeverAbort ==
    ( Drew /\ FormationValid /\ LabelsIncomplete )
    => /\ ret.msg # "exec_error"
       /\ \A i \in DOMAIN card_details :
              card_details[i].position.from \in { "declared", "default" }
       /\ pc = "done" => EntriesFollowDraw

-----------------------------------------------------------------------------
(* C12 *)

PosName == pos_out[1]
PosMeaning == pos_out[2]

\* the spread declares a name / a meaning for the position
NameDeclared ==
    /\ pos_in.represent_list.kind \in { "pair", "names_only" }
    /\ pos_in.idx0 < pos_in.represent_list.names
MeaningDeclared ==
    /\ pos_in.represent_list.kind = "pair"
    /\ pos_in.idx0 < pos_in.represent_list.meanings

\* the spread name is a key of the default-meaning table
InDefaultTable == pos_in.formation \in DOMAIN default_meanings

\* the position label of C12: the declared name, else "位置{i+1}"
LabelAsClaimed ==
    IF NameDeclared
    THEN PosName.from = "declared" /\ PosName.n = pos_in.idx0
    ELSE PosName.from = "default" /\ PosName.n = pos_in.idx0 + 1

\* C12 as stated: the label is the i-th declared name, else "位置{i+1}"; the
\* meaning is the i-th declared meaning, else the i-th entry of the default
\* table for the spread name, and "未知" when the name is not in the table.
C12_Original ==
    pos_out # << >>
    => /\ LabelAsClaimed
       /\ MeaningDeclared
              => PosMeaning.from = "declared" /\ PosMeaning.n = pos_in.idx0
       /\ (~MeaningDeclared /\ InDefaultTable)
              => /\ PosMeaning.from = "table"
                 /\ pos_in.idx0 < Len(default_meanings[pos_in.formation].items)
                 /\ PosMeaning.text
                        = default_meanings[pos_in.formation].items[pos_in.idx0 + 1]
       /\ (~MeaningDeclared /\ ~InDefaultTable) => PosMeaning.from = "unknown"

\* C12, amended: the label is the i-th declared name, else "位置{i+1}"; the
\* meaning is the i-th declared meaning when it exists; otherwise, for the
\* spread "single", the one default text of that spread whatever i is; for
\* another spread of the default table, the i-th entry of its default list
\* when the list has one and "未知" when i is beyond the list; and "未知"
\* when the spread name is not in the table.
C12_LabelAndMeaning ==
    pos_out # << >>
    => /\ LabelAsClaimed
       /\ MeaningDeclared
              => PosMeaning.from = "declared" /\ PosMeaning.n = pos_in.idx0
       /\ (~MeaningDeclared /\ pos_in.formation = "single")
              => PosMeaning.from = "table" /\ PosMeaning.text = "current_situation"
       /\ (~MeaningDeclared /\ InDefaultTable /\ pos_in.formation # "single")
              => IF pos_in.idx0 < Len(default_meanings[pos_in.formation].items)
                 THEN /\ PosMeaning.from = "table"
                      /\ PosMeaning.text
                             = default_meanings[pos_in.formation].items[pos_in.idx0 + 1]
                 ELSE PosMeaning.from = "unknown" /\ PosMeaning.text = "unknown"
       /\ (~MeaningDeclared /\ ~InDefaultTable)
              => PosMeaning.from = "unknown" /\ PosMeaning.text = "unknown"

\* the second position of "triangle" with one declared name and meaning:
\* the label is "位置2" and the meaning is the second default, "现在"
C12_Witness ==
    /\ pos_in = [ represent_list |-> Represent("pair", 1, 1), idx0 |-> 1,
                  formation |-> "triangle" ]
    /\ pos_out = << [ from |-> "default", n |-> 2 ], Meaning("table", 1, "present") >>

-----------------------------------------------------------------------------
(* C13 *)

\* a /tarots message is being handled, or has been
CmdRunning == cmd_pc \in { "start", "done" }

LastReply == cmd_sent[Len(cmd_sent)]

\* C13: for every sender whose id is not in permissions.admin_users, every
\* target and every value, TarotsCommand.execute sends the denial and nothing
\* else (neither the texts of check nor those of switch), returns failure,
\* and config.toml stays as the instance loaded it.
C13_PermissionGate ==
    ( CmdRunning /\ message.sender \notin config_file.admin_users )
    => /\ config_file = cmd_config
       /\ cmd_pc = "done"
              => /\ cmd_sent = << Reply("no_permission", << >>, 0) >>
                 /\ cmd_ret = CmdReturn(FALSE, "no_permission")

\* "guest" asked for a switch to a deck of use_cards and was denied
C13_Witness ==
    /\ cmd_pc = "done"
    /\ message = [ sender |-> "guest", target_type |-> "switch", action_value |-> "east" ]
    /\ "east" \in Range(config_file.use_cards)
    /\ cmd_card_map.loaded
    /\ config_file.using_cards = "bilibili"
    /\ cmd_sent = << Reply("no_permission", << >>, 0) >>
    /\ ~cmd_ret.ok

-----------------------------------------------------------------------------
(* C14 *)

\* an admin's "switch <deck>" has been handled
SwitchHandled ==
    /\ cmd_pc = "done"
    /\ message.sender \in config_file.admin_users
    /\ message.target_type = "switch"
    /\ message.action_value # ""

\* C14 as stated: for an admin sender, "switch <deck>" sets the persisted
\* using_cards to <deck> and reports success if and only if <deck> is in
\* use_cards; otherwise config.toml is unchanged and the reply lists the
\* available decks.
C14_SwitchIffInUseCards ==
    SwitchHandled
    => IF message.action_value \in Range(cmd_config.use_cards)
       THEN /\ config_file = [ cmd_config EXCEPT !.using_cards = message.action_value ]
            /\ cmd_ret.ok
            /\ cmd_sent = << Reply("switched", << message.action_value >>, 0) >>
       ELSE /\ config_file = cmd_config
            /\ ~cmd_ret.ok
            /\ cmd_sent = << Reply("deck_unavailable", cmd_config.use_cards, 0) >>

-----------------------------------------------------------------------------
(* C15 *)

\* an admin's "check" has been handled on a loaded deck
CheckHandled ==
    /\ cmd_pc = "done"
    /\ message.sender \in config_file.admin_users
    /\ cmd_card_map.loaded
    /\ message.target_type = "check"
    /\ message.action_value = ""

\* one of the two orientation pictures of the entry is not on disk
AssetAbsent(card_name) ==
    \E is_reverse \in BOOLEAN : TenFirstFilename(card_name, is_reverse) \notin deck_files

\* C15 as stated: check reports an entry as missing if and only if at least
\* one of its two orientation pictures is absent, and reports that the check
\* passed if and only if every entry has both, the entries whose name is
\* empty or absent included.
C15_CheckReportsMissing ==
    CheckHandled
    => /\ \A i \in DOMAIN cmd_card_map.cards :
              ( cmd_card_map.cards[i] \in Range(LastReply.names) )
                  <=> AssetAbsent(cmd_card_map.cards[i])
       /\ ( LastReply.what = "check_passed" )
              <=> \A i \in DOMAIN cmd_card_map.cards : ~AssetAbsent(cmd_card_map.cards[i])

-----------------------------------------------------------------------------
(* C16 *)

\* both writers have written
BothWrote == \A w \in WriterIds : writers[w].pc = "done"

\* the writer of the last write, the other writer, what each was called for
LastWriter == cfg_log[Len(cfg_log)].who
OtherWriter == CHOOSE w \in WriterIds : w # LastWriter
OpOf(w) == writers[w].op

\* the content a writer read, and the file before any of the two calls
ReadBy(w) ==
    cfg_log[CHOOSE k \in DOMAIN cfg_log :
                cfg_log[k].who = w /\ cfg_log[k].step = "read"].file
FileBefore == cfg_log[1].file

\* the two calls overlap: the second read comes before the first write
Interleaved == cfg_log[2].step = "read"

\* the key a writer assigns
KeyOf(op) == IF op.name = "set_cards" THEN "use_cards" ELSE "using_cards"

\* C16: when two writers both finish, config.toml is the whole document the
\* last writer had loaded, with its one assignment; so when their reads and
\* writes interleave and they assign different keys, the key of the other
\* writer is back to what it was before both calls (its update is lost);
\* when they do not interleave, the file has both assignments.
C16_LastWriterWins ==
    BothWrote
    => /\ config_file = modify(OpOf(LastWriter), ReadBy(LastWriter))
       /\ ( Interleaved /\ KeyOf(OpOf(OtherWriter)) # KeyOf(OpOf(LastWriter)) )
              => config_file[KeyOf(OpOf(OtherWriter))]
                     = FileBefore[KeyOf(OpOf(OtherWriter))]
       /\ ~Interleaved
              => config_file = modify(OpOf(LastWriter),
                                      modify(OpOf(OtherWriter), FileBefore))

\* a switch to "east" by _set_card_config is lost to an interleaved set_cards
C16_Witness ==
    /\ BothWrote
    /\ Interleaved
    /\ OpOf(OtherWriter) = WriterOp("_set_card_config", "east", << >>)
    /\ OpOf(LastWriter).name = "set_cards"
    /\ FileBefore.using_cards = "bilibili"
    /\ config_file.using_cards = "bilibili"

-----------------------------------------------------------------------------
(* C17 *)

Colons == { ":", "fw" }

\* the text before the first colon of either width
RECURSIVE BeforeFirstColon(_)
BeforeFirstColon(s) ==
    IF s = << >> \/ Head(s) \in Colons THEN << >>
    ELSE << Head(s) >> \o BeforeFirstColon(Tail(s))

\* the text without its leading and trailing blanks
Trimmed(s) ==
    LET inner == { k \in DOMAIN s : s[k] # " " }
    IN  IF inner = { } THEN << >>
        ELSE SubSeq(s, CHOOSE a \in inner : \A k \in inner : a <= k,
                       CHOOSE b \in inner : \A k \in inner : b >= k)

\* C17 as stated: for a label name + colon + utterance, the colon of either
\* width, the name execute uses is the trimmed text before the first colon
\* and nothing of the utterance; a label with no colon, an empty label or no
\* label yields the default name 用户.
C17_NamePrefixParsed ==
    user_nickname.set
    => LET label == IF target_message.present THEN target_message.text ELSE << >>
       IN  IF \E k \in DOMAIN label : label[k] \in Colons
           THEN user_nickname.name = Trimmed(BeforeFirstColon(label))
           ELSE user_nickname.name = << "yonghu" >>

-----------------------------------------------------------------------------
(* C18 *)

\* execute is about to draw for a spread that is cut, from a pool that is
\* large enough
AboutToDrawCut ==
    /\ pc = "start"
    /\ card_map.loaded
    /\ CardTypeValid
    /\ FormationValid
    /\ formation_map[formation_name].is_cut
    /\ formation_map[formation_name].cards_num <= Cardinality(ClaimPool(card_type))

\* the draw of the given ids with the given orientations
DrawOf(ids, o) == [ j \in DOMAIN ids |-> [ id |-> ids[j], is_reverse |-> o[j] ] ]

\* the samples of cards_num ids that can be drawn from the pool, one per set
\* of ids (its ids in ascending order)
SampledSets(cards_num) ==
    { sample \in random_sample(_get_card_range(card_type), cards_num) :
        \A j \in 1..(cards_num - 1) : sample.ids[j] < sample.ids[j + 1] }

\* C18: when the selected spread is cut, the orientation of each drawn card
\* is a choice of its own: whatever set of ids is sampled, every assignment
\* of upright and reversed to the cards_num cards is a draw that execute can
\* make.  (That each choice is reversed with probability 0.5 is the measure
\* of "random.random() < 0.5"; the formula states the outcomes it allows.)
C18_EveryOrientationPossible ==
    AboutToDrawCut
    => LET cards_num == formation_map[formation_name].cards_num
       IN  /\ SampledSets(cards_num) # { }
           /\ \A sample \in SampledSets(cards_num) :
                  \A o \in [ 1..cards_num -> BOOLEAN ] :
                      ENABLED ( Draw /\ selected_cards' = DrawOf(sample.ids, o) )

\* a cut spread of MaxCardsNum cards drawn with the first card reversed and
\* the last one upright
C18_Witness ==
    /\ pc = "cards"
    /\ formation_map[formation_name].is_cut
    /\ Len(selected_cards) = MaxCardsNum
    /\ selected_cards[1].is_reverse
    /\ ~selected_cards[MaxCardsNum].is_reverse

-----------------------------------------------------------------------------
(* C19 *)

\* the text of the LLM is among the texts sent
LlmTextSent == \E k \in DOMAIN sent : sent[k].what = "llm"

\* C19: in src/plugin.py the text of the LLM is sent only if the call
\* reported success and the text has fewer than 100 characters, and it is
\* then the narrative; a successful reply of 100 characters or more is not
\* sent: a fallback template is sent instead.
C19_LlmTextOnlyIfShort ==
    ( impl = "plugin" /\ pc = "done" /\ narrator.called )
    => /\ LlmTextSent
              => /\ ~narrator.raises
                 /\ narrator.success
                 /\ narrator.len < 100
                 /\ LastSent = Text("llm", narrator.len)
       /\ ( ~narrator.raises /\ narrator.success /\ narrator.len >= 100 )
              => /\ ~LlmTextSent
                 /\ LastSent.what \in TemplateFamilies
       /\ ( ~narrator.raises /\ narrator.success /\ narrator.len < 100 ) => LlmTextSent

\* a successful reply of 99 characters was forwarded
C19_Witness ==
    /\ impl = "plugin"
    /\ pc = "done"
    /\ narrator.called
    /\ narrator.success
    /\ narrator.len = 99
    /\ LastSent = Text("llm", 99)
    /\ ret.ok

-----------------------------------------------------------------------------
(* C20 *)

\* every write of initialisation has been made: the persisted config no
\* longer changes (the reload that follows only reads it)
WritesDone == init_pc \in { "reload", "done" }

\* every write of initialisation was made and none raised
RepairedCleanly == WritesDone /\ ~write_failed

\* the decks found on disk
FoundOnDisk == tarot_jsons

\* C20 as stated: after an initialisation whose writes all succeeded, the
\* persisted use_cards is the set of decks found on disk, and either the
\* persisted using_cards is one of use_cards, or no deck was found and
\* using_cards is "" with use_cards empty.
C20_Original ==
    RepairedCleanly =>
        /\ Range(config_file.use_cards) = FoundOnDisk
        /\ \/ config_file.using_cards \in Range(config_file.use_cards)
           \/ /\ FoundOnDisk = { }
              /\ config_file.using_cards = ""
              /\ config_file.use_cards = << >>

\* C20, amended: after an initialisation whose writes all succeeded, the
\* persisted use_cards is the set of decks found on disk; when no deck was
\* found using_cards is "" and use_cards is empty; when some deck was found,
\* using_cards is one of use_cards, except that a config without a
\* using_cards key keeps lacking it when the deck bilibili is on disk (the
\* value every reader then takes, bilibili, is one of use_cards).
C20_DeckConfigRepaired ==
    RepairedCleanly =>
        /\ Range(config_file.use_cards) = FoundOnDisk
        /\ IF FoundOnDisk = { }
           THEN config_file.using_cards = "" /\ config_file.use_cards = << >>
           ELSE IF config_file.using_cards = "absent"
                THEN "bilibili" \in Range(config_file.use_cards)
                ELSE config_file.using_cards \in Range(config_file.use_cards)

\* the config named a missing deck, two decks were found, and the writes
\* have put the first one found in using_cards
C20_Witness ==
    /\ init_pc = "reload"
    /\ ~write_failed
    /\ self_config.using_cards = "ghost"
    /\ Len(available_sets) = 2
    /\ config_file.using_cards = available_sets[1]
    /\ config_file.use_cards = available_sets

-----------------------------------------------------------------------------
(* C21 *)

\* the position in the draw of the card an image shows
DrawPosition(m) == CHOOSE j \in DOMAIN selected_cards : selected_cards[j].id = m.arg

\* the image is the picture of a drawn card, in its drawn orientation, and
\* the loop has already passed that card
ImageOfPassedCard(m) ==
    \E j \in DOMAIN selected_cards :
        /\ j < idx
        /\ m = Image(selected_cards[j].id, selected_cards[j].is_reverse)

ImagesSent == SelectSeq(sent, IsImage)

ImagesInDrawOrder ==
    /\ \A k \in DOMAIN ImagesSent : ImageOfPassedCard(ImagesSent[k])
    /\ \A k, l \in DOMAIN ImagesSent :
           k < l => DrawPosition(ImagesSent[k]) < DrawPosition(ImagesSent[l])

\* a narrative is the last thing sent, and the loop is over when it is sent
NarrativeAfterLastCard ==
    \A k \in DOMAIN sent :
        IsNarrative(sent[k]) => k = Len(sent) /\ idx > Len(selected_cards)

\* a step that leaves an image among the things sent has not touched the draw
DrawFixedWhileImagesSent == AnyImage' => selected_cards' = selected_cards

\* C21: in every execution of execute, the whole draw is fixed before the
\* first image is sent and stays as it is while images are sent; the images
\* are sent in the order of the draw's positions; the narrative is sent only
\* after the send attempt for the last drawn card, and nothing, in
\* particular no image, is sent after it.
C21_DrawThenImagesThenNarrative ==
    /\ [](ImagesInDrawOrder /\ NarrativeAfterLastCard)
    /\ [][DrawFixedWhileImagesSent]_vars

\* two cards were drawn, the first one reversed, both images were sent and
\* the narrative followed
C21_Witness ==
    /\ pc = "done"
    /\ Len(selected_cards) = 2
    /\ selected_cards[1].is_reverse
    /\ Len(sent) = 3
    /\ IsImage(sent[1]) /\ IsImage(sent[2])
    /\ IsNarrative(sent[3])

-----------------------------------------------------------------------------
(* C22 *)

\* a step of TarotsAction.execute, from the call to the return
ActionExecuting == pc \in { "start", "cards" }

\* a step of TarotsCommand.execute
CommandExecuting == cmd_pc = "start"

\* the step is a switch that replied "switched" and returned success
SwitchReportedDone ==
    /\ CommandExecuting
    /\ cmd_ret' = CmdReturn(TRUE, "switched")

\* the two files differ in nothing but the using_cards key
SameButUsingCards(before, after) == after = [ before EXCEPT !.using_cards = after.using_cards ]

\* what a step of either execute leaves alone
CatalogsReadOnly ==
    /\ ActionExecuting =>
           /\ card_map' = card_map
           /\ formation_map' = formation_map
           /\ self_config' = self_config
           /\ config_file' = config_file
    /\ CommandExecuting =>
           /\ cmd_card_map' = cmd_card_map
           /\ cmd_config' = cmd_config
           /\ card_map' = card_map
           /\ formation_map' = formation_map
           /\ self_config' = self_config
    /\ CommandExecuting /\ ~SwitchReportedDone => config_file' = config_file
    /\ SwitchReportedDone => SameButUsingCards(config_file, config_file')

\* C22: no step of TarotsAction.execute or of TarotsCommand.execute changes
\* the card_map, the formation_map, the using_cards or the in-memory config
\* of an instance; a switch that reports success changes nothing of the
\* persisted config but the using_cards key (use_cards and admin_users stay
\* as they were), and no other step of either execute changes the persisted
\* config at all.
C22_CatalogsReadOnly == [][CatalogsReadOnly]_vars

\* a switch to another deck has just succeeded: the file names the new deck,
\* the instance that made the switch still holds the config and the deck it
\* loaded
C22_Witness ==
    /\ cmd_pc = "done"
    /\ cmd_ret = CmdReturn(TRUE, "switched")
    /\ config_file.using_cards = "east"
    /\ cmd_config.using_cards = "bilibili"
    /\ config_file.use_cards = << "bilibili", "east" >>
    /\ cmd_card_map.loaded

-----------------------------------------------------------------------------
(* C23 *)

\* src/plugin.py: the loop is over and execute goes on to the narrative, or
\* the narrative has been sent
NarrativeReached ==
    /\ impl = "plugin"
    /\ \/ pc = "cards" /\ idx > Len(selected_cards) /\ ~ImagesFailed
       \/ pc = "done" /\ \E k \in DOMAIN sent : IsNarrative(sent[k])

\* the draw the spread asks for
CardsNum == formation_map[formation_name].cards_num

SomeEntryReversed == \E i \in DOMAIN card_details : card_details[i].is_reverse

\* C23: in src/plugin.py, whenever the narrative is reached, the list of
\* card details is not empty and images sent <= entries <= cards_num; the
\* fallback family of the entries is "all reversed" only when some entry is
\* reversed, and a fallback text that was sent is of the family of the
\* entries.
C23_NarrativeHasEntries ==
    NarrativeReached =>
        /\ card_details # << >>
        /\ Len(sent_images) <= Len(card_details)
        /\ Len(card_details) <= CardsNum
        /\ FallbackFamily(card_details) = "all_reversed" => SomeEntryReversed
        /\ \A k \in DOMAIN sent :
               sent[k].what \in TemplateFamilies =>
                   sent[k].what = FallbackFamily(card_details)

\* two cards were drawn, both reversed; one image failed, one was sent; the
\* fallback said "all reversed" of the two entries
C23_Witness ==
    /\ impl = "plugin"
    /\ pc = "done"
    /\ Len(card_details) = 2
    /\ Len(sent_images) = 1
    /\ CardsNum = 2
    /\ LastSent.what = "all_reversed"

-----------------------------------------------------------------------------
(* C24 *)

\* the command replied that the deck was switched and returned success
SwitchReported ==
    /\ cmd_pc = "done"
    /\ cmd_ret = CmdReturn(TRUE, "switched")
    /\ LastReply = Reply("switched", << message.action_value >>, 0)

\* C24: whenever "switch <deck>" replies that the deck was switched and
\* returns success, the persisted using_cards is <deck>; in particular a
\* switch whose read or write of config.toml failed is not reported as done.
C24_SwitchedMeansPersisted ==
    SwitchReported => config_file.using_cards = message.action_value
====
